---- MODULE Spec2Model ----
(***************************************************************************)
(* A model of ai-service/main.py: the plan executor (apply_plan), the      *)
(* ACS fallback rule engine (apply_fallback_acs), the improvement judge    *)
(* (nonnull_counts / changed) and the /process and /finalize handlers      *)
(* working on one job directory.                                           *)
(*                                                                         *)
(* Tables are pandas DataFrames with a RangeIndex: a list of column names, *)
(* a row count and, per column, the cells. Text is a sequence of           *)
(* characters; a character is a one-token string (" " is whitespace).      *)
(***************************************************************************)
EXTENDS Integers, Sequences, FiniteSets, TLC

VARIABLES
    pc,         \* position of the plan executor: "idle", "loop", "done", "raised"
    raw_df,     \* apply_plan's raw_df argument
    ideal_df,   \* apply_plan's ideal_df local (rebound at line 111, mutated in the loop)
    todo,       \* the mappings apply_plan's for loop has still to visit
    steps,      \* apply_plan's steps list
    given,      \* the arguments of the running apply_plan call, as passed
    judge,      \* the improvement judge's inputs and verdict (finalize, lines 331-335)
    jobdir,     \* the files of the job directory jobs/<job_id>, or NoJob
    last,       \* what the latest /finalize call on the job read, decided and answered
    stub        \* the outcome the external model is fixed to, or Free

vars == <<pc, raw_df, ideal_df, todo, steps, given, judge, jobdir, last, stub>>

----------------------------------------------------------------------------
(* Bounds of the model *)

MaxRows == 2        \* rows of an uploaded table
MaxOps == 2         \* operations of a plan
MaxCount == 5       \* non-null cells of a column handed to the judge on its own
MaxSources == 3     \* source columns of a concat operation

----------------------------------------------------------------------------
(* Cells *)

Null == [t |-> "null", s |-> <<>>, n |-> 0, m |-> 0]
Str(chars) == [t |-> "str", s |-> chars, n |-> 0, m |-> 0]
\* a number, in thousandths
Num(k) == [t |-> "num", s |-> <<>>, n |-> k, m |-> 0]
\* a Timestamp (date and time of day) and a datetime.date
DateTime(y, mo) == [t |-> "datetime", s |-> <<>>, n |-> y, m |-> mo]
Date(y, mo) == [t |-> "date", s |-> <<>>, n |-> y, m |-> mo]
\* a Python dict or list held in a cell: not null, and no Excel cell can hold it
Obj == [t |-> "obj", s |-> <<>>, n |-> 0, m |-> 0]

\* Series.notna()
notna(c) == c.t # "null"

----------------------------------------------------------------------------
(* Text: str.strip(), and the parsers behind to_datetime and to_numeric *)

IsSpace(ch) == ch \in {" ", "\n", "\r"}

RECURSIVE LStrip(_)
LStrip(s) == IF s = <<>> THEN s
             ELSE IF IsSpace(Head(s)) THEN LStrip(Tail(s)) ELSE s

RECURSIVE RStrip(_)
RStrip(s) == IF s = <<>> THEN s
             ELSE IF IsSpace(s[Len(s)]) THEN RStrip(SubSeq(s, 1, Len(s) - 1)) ELSE s

strip(s) == RStrip(LStrip(s))

\* the date strings of the model, one token each, with their year and month
DateTokens == {"2023-07-15", "2023-06-15"}
TokenYear(tok) == 2023
TokenMonth(tok) == IF tok = "2023-07-15" THEN 7 ELSE 6

Digits == {"1", "2"}
DigitValue(ch) == IF ch = "1" THEN 1 ELSE 2

RECURSIVE DecimalValue(_)
DecimalValue(s) == IF s = <<>> THEN 0
                   ELSE 10 * DecimalValue(SubSeq(s, 1, Len(s) - 1)) + DigitValue(s[Len(s)])

\* astype(str) of one non-null cell: the characters of its text
astype_str(c) ==
    CASE c.t = "str" -> c.s
      [] c.t = "num" -> <<ToString(c.n)>>
      [] c.t = "datetime" -> <<ToString(c.n), "-", ToString(c.m), "T">>
      [] c.t = "date" -> <<ToString(c.n), "-", ToString(c.m)>>
      [] OTHER -> <<"{", "}">>

\* pd.to_datetime(series, errors="coerce"), one cell: what does not parse is NaT
safe_to_datetime(c) ==
    CASE c.t = "datetime" -> c
      [] c.t = "date" -> DateTime(c.n, c.m)
      [] c.t = "num" -> DateTime(1970, 1)
      [] c.t = "str" ->
            LET w == strip(c.s)
            IN IF Len(w) = 1 /\ w[1] \in DateTokens
               THEN DateTime(TokenYear(w[1]), TokenMonth(w[1]))
               ELSE Null
      [] OTHER -> Null

\* pd.to_numeric(series, errors="coerce"), one cell: what does not parse is NaN
to_numeric(c) ==
    CASE c.t = "num" -> c
      [] c.t = "str" ->
            LET w == strip(c.s)
            IN IF w # <<>> /\ \A i \in 1..Len(w) : w[i] \in Digits
               THEN Num(1000 * DecimalValue(w))
               ELSE Null
      [] OTHER -> Null

RECURSIVE Pow10(_)
Pow10(k) == IF k <= 0 THEN 1 ELSE 10 * Pow10(k - 1)

\* Series.round(decimals) of a number held in thousandths: half to even
round(c, decimals) ==
    IF c.t # "num" \/ decimals >= 3 THEN c
    ELSE LET unit == Pow10(3 - decimals)
             q == c.n \div unit
             r == c.n % unit
         IN  Num(unit * (IF 2 * r < unit THEN q
                         ELSE IF 2 * r > unit THEN q + 1
                         ELSE IF q % 2 = 0 THEN q ELSE q + 1))

----------------------------------------------------------------------------
(* Tables *)

Table(cols, n, data) == [columns |-> cols, nrows |-> n, data |-> data]

ColSet(df) == {df.columns[j] : j \in 1..Len(df.columns)}

\* DataFrame.empty: some axis has length 0
empty(df) == df.nrows = 0 \/ Len(df.columns) = 0

\* pd.DataFrame(columns=ideal_df.columns, index=range(len(raw_df))): every cell NaN
ensure_row_count(raw, ideal) ==
    IF ideal.nrows = 0 /\ ~empty(raw)
    THEN Table(ideal.columns, raw.nrows,
               [c \in ColSet(ideal) |-> [i \in 1..raw.nrows |-> Null]])
    ELSE ideal

\* DataFrame.__setitem__(tgt, cells): the column is replaced, and a column the
\* frame does not have is appended to it
setitem(df, tgt, cells) ==
    Table(IF tgt \in ColSet(df) THEN df.columns ELSE Append(df.columns, tgt),
          df.nrows,
          [c \in ColSet(df) \cup {tgt} |-> IF c = tgt THEN cells ELSE df.data[c]])

\* ideal_df[tgt] = <a Series indexed like raw_df>: aligned on the row index, a row
\* of ideal_df the Series has no value for becomes NaN
setitem_series(df, tgt, ser) ==
    setitem(df, tgt, [i \in 1..df.nrows |-> IF i <= Len(ser) THEN ser[i] ELSE Null])

\* ideal_df[tgt] = <a scalar>: every row
setitem_scalar(df, tgt, c) == setitem(df, tgt, [i \in 1..df.nrows |-> c])

\* df[c].notna().sum()
RECURSIVE notna_sum(_)
notna_sum(col) ==
    IF col = <<>> THEN 0
    ELSE (IF notna(Head(col)) THEN 1 ELSE 0) + notna_sum(Tail(col))

\* finalize.nonnull_counts
nonnull_counts(df) == [c \in ColSet(df) |-> notna_sum(df.data[c])]

----------------------------------------------------------------------------
(* Plans: the JSON the model is asked for (build_plan_prompt's schema) *)

\* m.get(key) of a key the operation does not have
NoneRef == "None"
\* a column reference that is a JSON list or object: hashing it raises TypeError
Unhashable == "[]"

DefaultDecimals == 2
FiscalStartMonth == 7

\* One element of plan["mappings"]. isdict is FALSE for an element that is not a
\* JSON object; sources_ok is FALSE when "sources" is not a list; sep is
\* [kind |-> "absent" | "str" | "other", s |-> chars]; value is
\* [list |-> BOOLEAN, items |-> cells] (a scalar has one item); decimals is
\* [kind |-> "absent" | "int" | "bad", d |-> Int]
Op(isdict, op, source, sources_ok, sources, sep, target, value, decimals) ==
    [isdict |-> isdict, op |-> op, source |-> source, sources_ok |-> sources_ok,
     sources |-> sources, sep |-> sep, target |-> target, value |-> value,
     decimals |-> decimals]

SepAbsent == [kind |-> "absent", s |-> <<>>]
SepStr(chars) == [kind |-> "str", s |-> chars]
SepOther == [kind |-> "other", s |-> <<>>]
Scalar(c) == [list |-> FALSE, items |-> <<c>>]
List(cells) == [list |-> TRUE, items |-> cells]
DecAbsent == [kind |-> "absent", d |-> 0]
DecInt(d) == [kind |-> "int", d |-> d]
DecBad == [kind |-> "bad", d |-> 0]

CopyOp(src, tgt) ==
    Op(TRUE, "copy", src, TRUE, <<>>, SepAbsent, tgt, Scalar(Null), DecAbsent)
ConcatOp(srcs, sep, tgt) ==
    Op(TRUE, "concat", NoneRef, TRUE, srcs, sep, tgt, Scalar(Null), DecAbsent)
DateCopyOp(src, tgt) ==
    Op(TRUE, "date_copy", src, TRUE, <<>>, SepAbsent, tgt, Scalar(Null), DecAbsent)
CalendarYearOp(src, tgt) ==
    Op(TRUE, "calendar_year", src, TRUE, <<>>, SepAbsent, tgt, Scalar(Null), DecAbsent)
FiscalYearOp(src, tgt) ==
    Op(TRUE, "fiscal_year_july_june", src, TRUE, <<>>, SepAbsent, tgt, Scalar(Null), DecAbsent)
NumericCopyOp(src, tgt, dec) ==
    Op(TRUE, "numeric_copy", src, TRUE, <<>>, SepAbsent, tgt, Scalar(Null), dec)
FillConstOp(val, tgt) ==
    Op(TRUE, "fill_const", NoneRef, TRUE, <<>>, SepAbsent, tgt, val, DecAbsent)
OtherOp(name) ==
    Op(TRUE, name, NoneRef, TRUE, <<>>, SepAbsent, NoneRef, Scalar(Null), DecAbsent)
NotADict ==
    Op(FALSE, NoneRef, NoneRef, TRUE, <<>>, SepAbsent, NoneRef, Scalar(Null), DecAbsent)

KnownOps == {"copy", "concat", "date_copy", "calendar_year",
             "fiscal_year_july_june", "numeric_copy", "fill_const"}

----------------------------------------------------------------------------
(* The step log: one entry per line of transform_log.yaml *)

Entry(tag, args, tgt) == [tag |-> tag, args |-> args, tgt |-> tgt]

\* the text an f-string puts in the log for a fill_const value
ValRepr(v) ==
    IF v.list THEN "[...]"
    ELSE LET c == v.items[1]
         IN CASE c.t = "null" -> "None"
              [] c.t = "str" -> IF c.s = <<>> THEN "" ELSE c.s[1]
              [] OTHER -> ToString(c.n)

----------------------------------------------------------------------------
(* apply_plan: one operation *)

\* has(df, col)
has(df, col) == col \in ColSet(df)

\* The column test of a branch, as Python evaluates it: the sources in order, then
\* the target, and and all() stopping at the first False, and hashing an
\* unhashable reference raising before the answer is known.
RECURSIVE SourcesTest(_, _)
SourcesTest(raw, srcs) ==
    IF srcs = <<>> THEN "ok"
    ELSE IF Head(srcs) = Unhashable THEN "raise"
    ELSE IF ~has(raw, Head(srcs)) THEN "skip"
    ELSE SourcesTest(raw, Tail(srcs))

\* the test with has(ideal_df, tgt) left out
ColumnsTest_NoTarget(raw, df, srcs, tgt) ==
    LET s == SourcesTest(raw, srcs)
    IN  IF s # "ok" THEN s ELSE "ok"

ColumnsTest(raw, df, srcs, tgt) ==
    LET s == SourcesTest(raw, srcs)
    IN  IF s # "ok" THEN s
        ELSE IF tgt = Unhashable THEN "raise"
        ELSE IF ~has(df, tgt) THEN "skip"
        ELSE "ok"

\* the values taken without .str.strip()
ConcatVals_NoStrip(raw, srcs, i) ==
    [k \in 1..Len(srcs) |->
        LET c == raw.data[srcs[k]][i]
        IN  IF notna(c) THEN astype_str(c) ELSE <<>>]

\* [s.fillna("").astype(str).str.strip() for s in srcs], one row
ConcatVals(raw, srcs, i) ==
    [k \in 1..Len(srcs) |->
        LET c == raw.data[srcs[k]][i]
        IN  strip(IF notna(c) THEN astype_str(c) ELSE <<>>)]

\* out = vals[0]; for v in vals[1:]: out = (out + sep + v).str.strip()
RECURSIVE ConcatFold(_, _, _)
ConcatFold(out, rest, sep) ==
    IF rest = <<>> THEN out
    ELSE ConcatFold(strip(out \o sep \o Head(rest)), Tail(rest), sep)

\* out.replace({"^\\s*$": None}, regex=True)
EmptyToNone(s) ==
    IF \A k \in 1..Len(s) : IsSpace(s[k]) THEN Null ELSE Str(s)

ConcatRow(raw, srcs, sep, i) ==
    LET vals == ConcatVals(raw, srcs, i)
    IN  EmptyToNone(ConcatFold(Head(vals), Tail(vals), sep))

\* line 128's m.get("separator", " ")
SepChars(sep) == IF sep.kind = "absent" THEN <<" ">> ELSE sep.s

\* dt.dt.date, dt.dt.year and dt.dt.year + (dt.dt.month >= 7).astype("Int64")
DateOf(c) == IF notna(c) THEN Date(c.n, c.m) ELSE Null
YearOf(c) == IF notna(c) THEN Num(1000 * c.n) ELSE Null
FiscalYearOf(c) ==
    IF notna(c)
    THEN Num(1000 * (c.n + (IF c.m >= FiscalStartMonth THEN 1 ELSE 0)))
    ELSE Null

\* the cell a branch makes of a source cell: the cell itself (copy), its date, its
\* year, its fiscal year, or its number rounded
Convert(how, decimals, c) ==
    CASE how = "copy" -> c
      [] how = "date" -> DateOf(safe_to_datetime(c))
      [] how = "year" -> YearOf(safe_to_datetime(c))
      [] how = "fiscal" -> FiscalYearOf(safe_to_datetime(c))
      [] OTHER -> round(to_numeric(c), decimals)

MapColumn(raw, src, how, decimals) ==
    [i \in 1..raw.nrows |-> Convert(how, decimals, raw.data[src][i])]

\* What one pass of the loop leaves: the table, the lines appended to steps, and
\* whether an exception left the loop.
\* the loop body without its try/except
Raised_Propagates(df, cause) == [df |-> df, lines |-> <<>>, abort |-> TRUE]

\* lines 187-188: an exception raised in the try block becomes a line of the log
Raised(df, cause) ==
    [df |-> df, lines |-> <<Entry("[PLAN_APPLY_ERROR]", <<cause>>, "")>>, abort |-> FALSE]
\* a branch that ran to its steps.append
Logged(df, tag, args, tgt) ==
    [df |-> df, lines |-> <<Entry(tag, args, tgt)>>, abort |-> FALSE]

\* A single-source branch: copy, date_copy, calendar_year, fiscal_year_july_june
SourceBranch(m, raw, df, how, done, skipped) ==
    LET test == ColumnsTest(raw, df, <<m.source>>, m.target)
    IN  CASE test = "raise" -> Raised(df, "TypeError")
          [] test = "skip" -> Logged(df, skipped, <<m.source>>, m.target)
          [] OTHER -> Logged(setitem_series(df, m.target, MapColumn(raw, m.source, how, DefaultDecimals)),
                             done, <<m.source>>, m.target)

ConcatBranch(m, raw, df) ==
    IF ~m.sources_ok THEN Raised(df, "TypeError")
    ELSE
    LET test == ColumnsTest(raw, df, m.sources, m.target)
    IN  CASE test = "raise" -> Raised(df, "TypeError")
          [] test = "skip" -> Logged(df, "Skipped concat", m.sources, m.target)
          [] m.sources = <<>> -> Raised(df, "IndexError")
          [] Len(m.sources) > 1 /\ m.sep.kind = "other" -> Raised(df, "TypeError")
          [] OTHER ->
                Logged(setitem_series(df, m.target,
                           [i \in 1..raw.nrows |->
                               ConcatRow(raw, m.sources, SepChars(m.sep), i)]),
                       "Concatenated", m.sources, m.target)

NumericCopyBranch(m, raw, df) ==
    IF m.decimals.kind = "bad" THEN Raised(df, "ValueError")
    ELSE
    LET decimals == IF m.decimals.kind = "absent" THEN DefaultDecimals ELSE m.decimals.d
        test == ColumnsTest(raw, df, <<m.source>>, m.target)
    IN  CASE test = "raise" -> Raised(df, "TypeError")
          [] test = "skip" -> Logged(df, "Skipped numeric_copy", <<m.source>>, m.target)
          [] OTHER -> Logged(setitem_series(df, m.target, MapColumn(raw, m.source, "numeric", decimals)),
                             "Numeric copy", <<m.source, ToString(decimals)>>, m.target)

FillConstBranch(m, raw, df) ==
    LET test == ColumnsTest(raw, df, <<>>, m.target)
    IN  CASE test = "raise" -> Raised(df, "TypeError")
          [] test = "skip" -> Logged(df, "Skipped fill_const", <<ValRepr(m.value)>>, m.target)
          [] m.value.list /\ Len(m.value.items) # df.nrows -> Raised(df, "ValueError")
          [] m.value.list ->
                Logged(setitem(df, m.target, m.value.items),
                       "Filled constant", <<ValRepr(m.value)>>, m.target)
          [] OTHER ->
                Logged(setitem_scalar(df, m.target, m.value.items[1]),
                       "Filled constant", <<ValRepr(m.value)>>, m.target)

\* The body of apply_plan's for loop, lines 117-188: the table after the operation
\* and the one line it appends to steps
ApplyOp(m, raw, df) ==
    IF ~m.isdict THEN Raised(df, "AttributeError")
    ELSE CASE m.op = "copy" ->
                SourceBranch(m, raw, df, "copy", "Mapped", "Skipped copy")
           [] m.op = "concat" -> ConcatBranch(m, raw, df)
           [] m.op = "date_copy" ->
                SourceBranch(m, raw, df, "date",
                             "Date copy", "Skipped date_copy")
           [] m.op = "calendar_year" ->
                SourceBranch(m, raw, df, "year",
                             "Calendar Year from", "Skipped calendar_year")
           [] m.op = "fiscal_year_july_june" ->
                SourceBranch(m, raw, df, "fiscal",
                             "Fiscal Year (July-June) from", "Skipped fiscal_year")
           [] m.op = "numeric_copy" -> NumericCopyBranch(m, raw, df)
           [] m.op = "fill_const" -> FillConstBranch(m, raw, df)
           [] OTHER -> Logged(df, "Unknown op", <<m.op>>, "")

----------------------------------------------------------------------------
(* apply_plan as a whole *)

\* json.loads' result, as far as apply_plan reads it: mappings_ok is FALSE when
\* plan["mappings"] is a value a for loop cannot iterate (null, a number, true)
Plan(mappings_ok, mappings) == [mappings_ok |-> mappings_ok, mappings |-> mappings]

RECURSIVE RunMappings(_, _, _, _)
RunMappings(ms, raw, df, st) ==
    IF ms = <<>> THEN [df |-> df, steps |-> st, abort |-> FALSE]
    ELSE LET r == ApplyOp(Head(ms), raw, df)
         IN  IF r.abort THEN [df |-> r.df, steps |-> st \o r.lines, abort |-> TRUE]
             ELSE RunMappings(Tail(ms), raw, r.df, st \o r.lines)

\* apply_plan(plan, raw_df, ideal_df): (new_ideal_df, steps), or the TypeError of
\* line 116 when the mappings cannot be iterated
apply_plan(plan, raw, ideal) ==
    LET df0 == ensure_row_count(raw, ideal)
    IN  IF ~plan.mappings_ok
        THEN [raised |-> TRUE, df |-> df0, steps |-> <<>>]
        ELSE LET r == RunMappings(plan.mappings, raw, df0, <<>>)
             IN  [raised |-> r.abort, df |-> r.df, steps |-> r.steps]

----------------------------------------------------------------------------
(* Column names *)

FIRST == "Corresponding Author First Name"
LAST == "Corresponding Author Last Name"
PRICE == "Retail Price"
AUTHOR == "Author Name"
APC == "APC"
Missing == "Missing"

----------------------------------------------------------------------------
(* The improvement judge: finalize, lines 331-335 *)

\* dict.get(c, 0)
get(counts, c) == IF c \in DOMAIN counts THEN counts[c] ELSE 0

\* the judge asking for an increase and no decrease
changed_NoDecrease(before_counts, after_counts, cols) ==
    /\ \E j \in 1..Len(cols) : get(after_counts, cols[j]) > get(before_counts, cols[j])
    /\ \A j \in 1..Len(cols) : get(after_counts, cols[j]) >= get(before_counts, cols[j])

\* the judge comparing with >=
changed_OrEqual(before_counts, after_counts, cols) ==
    \E j \in 1..Len(cols) : get(after_counts, cols[j]) >= get(before_counts, cols[j])

\* any(after_counts.get(c, 0) > before_counts.get(c, 0) for c in new_ideal_df.columns)
changed(before_counts, after_counts, cols) ==
    \E j \in 1..Len(cols) : get(after_counts, cols[j]) > get(before_counts, cols[j])

\* lines 333-335 on the two tables
improved(ideal, new_ideal) ==
    changed(nonnull_counts(ideal), nonnull_counts(new_ideal), new_ideal.columns)

----------------------------------------------------------------------------
(* apply_fallback_acs *)

\* The rules in the order of lines 199-248: what a rule needs of the raw table,
\* the ideal column it fills, how, and its line of the log.
FallbackRules == <<
    [needs |-> <<>>, tgt |-> "Agreement", how |-> "const",
     msg |-> "Set Agreement = ACS"],
    [needs |-> <<"Manuscript DOI">>, tgt |-> "Article DOI", how |-> "copy",
     msg |-> "Manuscript DOI -> Article DOI"],
    [needs |-> <<FIRST, LAST>>, tgt |-> AUTHOR, how |-> "name",
     msg |-> "Corresponding Author First/Last -> Author Name"],
    [needs |-> <<"Manuscript Title Text">>, tgt |-> "Article Title", how |-> "copy",
     msg |-> "Manuscript Title Text -> Article Title"],
    [needs |-> <<"Journal Title Name">>, tgt |-> "Journal Title", how |-> "copy",
     msg |-> "Journal Title Name -> Journal Title"],
    [needs |-> <<"ASAP Pub Date">>, tgt |-> "Publication Date", how |-> "date",
     msg |-> "ASAP Pub Date -> Publication Date"],
    [needs |-> <<"ASAP Pub Date">>, tgt |-> "Calendar Year", how |-> "year",
     msg |-> "Calendar Year from ASAP Pub Date"],
    [needs |-> <<"ASAP Pub Date">>, tgt |-> "Fiscal Year", how |-> "fiscal",
     msg |-> "Fiscal Year (July-June) from ASAP Pub Date"],
    [needs |-> <<"Transacting Profile Name">>, tgt |-> "Author Affiliation", how |-> "copy",
     msg |-> "Transacting Profile Name -> Author Affiliation"],
    [needs |-> <<PRICE>>, tgt |-> APC, how |-> "price",
     msg |-> "Retail Price -> APC (2 decimals)"],
    [needs |-> <<"Purchase License Summary">>, tgt |-> "License", how |-> "copy",
     msg |-> "Purchase License Summary -> License"],
    [needs |-> <<"Journal Type Code">>, tgt |-> "Gold or Hybrid OA", how |-> "copy",
     msg |-> "Journal Type Code -> Gold or Hybrid OA"] >>

\* line 211: first and last stripped, joined with a space, stripped, empty to None
NameRow(raw, i) ==
    LET text(c) == IF notna(c) THEN astype_str(c) ELSE <<>>
        first_name == text(raw.data[FIRST][i])
        last_name == text(raw.data[LAST][i])
    IN  EmptyToNone(strip(strip(first_name) \o <<" ">> \o strip(last_name)))

RuleCells(rule, raw) ==
    LET src == rule.needs[1]
    IN  CASE rule.how = "copy" -> raw.data[src]
          [] rule.how = "name" -> [i \in 1..raw.nrows |-> NameRow(raw, i)]
          [] OTHER -> MapColumn(raw, src, rule.how, DefaultDecimals)

\* one rule: applied when the raw table has its sources and the ideal its target
ApplyRule(rule, raw, st) ==
    IF /\ \A k \in 1..Len(rule.needs) : has(raw, rule.needs[k])
       /\ rule.tgt \in ColSet(st.df)
    THEN [df |-> IF rule.how = "const"
                 THEN setitem_scalar(st.df, rule.tgt, Str(<<"ACS">>))
                 ELSE setitem_series(st.df, rule.tgt, RuleCells(rule, raw)),
          steps |-> Append(st.steps, Entry(rule.msg, <<>>, rule.tgt))]
    ELSE st

RECURSIVE ApplyRules(_, _, _)
ApplyRules(rules, raw, st) ==
    IF rules = <<>> THEN st
    ELSE ApplyRules(Tail(rules), raw, ApplyRule(Head(rules), raw, st))

\* apply_fallback_acs(raw_df, ideal_df): (ideal_df, steps)
apply_fallback_acs(raw, ideal) ==
    ApplyRules(FallbackRules, raw, [df |-> ensure_row_count(raw, ideal), steps |-> <<>>])

----------------------------------------------------------------------------
(* The tables and plans the executor is run on *)

RawMenu == << Str(<<"a">>), Null, Str(<<" ", "b">>), Str(<<" ">>), Num(12345),
              Str(<<"2023-07-15">>), DateTime(2023, 6), Str(<<"1", "2">>),
              Str(<<"c", " ">>) >>

IdealMenu == << Null, Str(<<"t">>) >>

\* the table with the given columns and n rows whose cell in column j, row i is
\* the menu's entry p + (j - 1) + 3 * (i - 1), counted cyclically
Filled(cols, n, menu, p) ==
    Table(cols, n,
          [c \in {cols[j] : j \in 1..Len(cols)} |->
              [i \in 1..n |->
                  LET j == CHOOSE k \in 1..Len(cols) : cols[k] = c
                  IN  menu[((p + (j - 1) + 3 * (i - 1)) % Len(menu)) + 1]]])

PlanRawCols == <<FIRST, LAST, PRICE>>
PlanIdealCols == <<AUTHOR, APC>>

\* <<rows of the raw table, its fill, rows of the ideal table, its fill>>
PlanShapes == {<<0, 0, 0, 0>>, <<MaxRows, 0, 0, 0>>, <<MaxRows, 4, MaxRows, 1>>,
               <<1, 0, MaxRows, 0>>, <<MaxRows, 4, 1, 1>>, <<0, 0, 1, 1>>}

PlanTables ==
    {[raw |-> Filled(PlanRawCols, s[1], RawMenu, s[2]),
      ideal |-> Filled(PlanIdealCols, s[3], IdealMenu, s[4])] : s \in PlanShapes}

SourceKinds == {"copy", "date_copy", "calendar_year", "fiscal_year_july_june"}

OpsMenu ==
    {Op(TRUE, k, r[1], TRUE, <<>>, SepAbsent, r[2], Scalar(Null), DecAbsent) :
        k \in SourceKinds,
        r \in {<<PRICE, APC>>, <<Missing, APC>>, <<PRICE, Missing>>}}
    \cup {CopyOp(LAST, AUTHOR), CopyOp(Unhashable, APC), CopyOp(FIRST, Unhashable),
          CopyOp(NoneRef, NoneRef)}
    \cup {NumericCopyOp(PRICE, APC, DecAbsent), NumericCopyOp(LAST, APC, DecInt(0)),
          NumericCopyOp(Missing, APC, DecInt(2)), NumericCopyOp(Missing, APC, DecBad),
          NumericCopyOp(PRICE, APC, DecBad)}
    \cup {ConcatOp(<<FIRST, LAST>>, SepAbsent, AUTHOR),
          ConcatOp(<<FIRST, Missing>>, SepStr(<<"-">>), AUTHOR),
          ConcatOp(<<FIRST, LAST>>, SepStr(<<" ">>), Missing),
          ConcatOp(<<>>, SepAbsent, AUTHOR), ConcatOp(<<>>, SepAbsent, Missing),
          ConcatOp(<<FIRST, LAST>>, SepOther, AUTHOR),
          Op(TRUE, "concat", NoneRef, FALSE, <<>>, SepAbsent, AUTHOR, Scalar(Null), DecAbsent)}
    \cup {FillConstOp(Scalar(Str(<<"ACS">>)), APC), FillConstOp(Scalar(Null), AUTHOR),
          FillConstOp(Scalar(Str(<<"ACS">>)), Missing),
          FillConstOp(List(<<Obj>>), APC), FillConstOp(Scalar(Null), Unhashable)}
    \cup {OtherOp("rename"), NotADict}

SeqsUpTo(S, n) == UNION {[1..k -> S] : k \in 0..n}

Plans == {Plan(TRUE, ms) : ms \in SeqsUpTo(OpsMenu, MaxOps)} \cup {Plan(FALSE, <<>>)}

----------------------------------------------------------------------------
(* The plan executor, one loop iteration per step *)

NoTable == Table(<<>>, 0, <<>>)
NoJudge == [before |-> NoTable, after |-> NoTable, changed |-> FALSE, set |-> FALSE]
NoJob == [exists |-> FALSE]
NoCall ==
    [made |-> FALSE, status |-> 0, instr_text |-> <<>>, raw |-> NoTable, ideal |-> NoTable,
     outcome |-> [ok |-> FALSE, out |-> <<>>], plan_json |-> <<>>, parsed |-> FALSE, ran |-> FALSE,
     new_ideal |-> NoTable,
     changed |-> FALSE, final |-> NoTable, ai_steps |-> <<>>]

Free == [fixed |-> FALSE, outcome |-> [ok |-> FALSE, out |-> <<>>]]

ServiceIdle ==
    /\ judge = NoJudge
    /\ jobdir = NoJob
    /\ last = NoCall
    /\ stub = Free

InitExec(plans, tables) ==
    /\ pc = "idle"
    /\ given \in {[plan |-> p, raw |-> tb.raw, ideal |-> tb.ideal] : p \in plans, tb \in tables}
    /\ raw_df = given.raw
    /\ ideal_df = given.ideal
    /\ todo = <<>>
    /\ steps = <<>>
    /\ ServiceIdle

InitPlan == InitExec(Plans, PlanTables)

\* lines 108-116: steps = [], the row count, the mappings
PlanEnter ==
    /\ pc = "idle"
    /\ given.plan.mappings_ok
    /\ ideal_df' = ensure_row_count(raw_df, ideal_df)
    /\ todo' = given.plan.mappings
    /\ pc' = "loop"
    /\ UNCHANGED <<raw_df, steps, given, judge, jobdir, last, stub>>

\* line 116, when the mappings are not iterable: the TypeError leaves apply_plan
PlanRaise ==
    /\ pc = "idle"
    /\ ~given.plan.mappings_ok
    /\ ideal_df' = ensure_row_count(raw_df, ideal_df)
    /\ pc' = "raised"
    /\ UNCHANGED <<raw_df, todo, steps, given, judge, jobdir, last, stub>>

\* lines 116-188: one pass of the for loop
PlanStep ==
    /\ pc = "loop"
    /\ todo # <<>>
    /\ LET r == ApplyOp(Head(todo), raw_df, ideal_df)
       IN  /\ ideal_df' = r.df
           /\ steps' = steps \o r.lines
           /\ pc' = IF r.abort THEN "raised" ELSE "loop"
    /\ todo' = Tail(todo)
    /\ UNCHANGED <<raw_df, given, judge, jobdir, last, stub>>

\* line 190
PlanReturn ==
    /\ pc = "loop"
    /\ todo = <<>>
    /\ pc' = "done"
    /\ UNCHANGED <<raw_df, ideal_df, todo, steps, given, judge, jobdir, last, stub>>

NextPlan == PlanEnter \/ PlanRaise \/ PlanStep \/ PlanReturn

SpecPlan == InitPlan /\ [][NextPlan]_vars

----------------------------------------------------------------------------
(* The plan executor on one concat operation *)

ConcatMenu == << Str(<<"a">>), Null, Str(<<" ", "b">>), Str(<<" ">>), Str(<<"c", " ">>) >>

\* the raw table whose first row holds the given cells and whose row i holds the
\* cells i - 1 places further in the menu, counted cyclically
ConcatTable(c, n) ==
    Table(PlanRawCols, n,
          [col \in {PlanRawCols[j] : j \in 1..3} |->
              [i \in 1..n |->
                  LET j == CHOOSE k \in 1..3 : PlanRawCols[k] = col
                      at == CHOOSE k \in 1..Len(ConcatMenu) : ConcatMenu[k] = c[j]
                  IN  ConcatMenu[((at - 1 + (i - 1)) % Len(ConcatMenu)) + 1]]])

ConcatTables ==
    {[raw |-> ConcatTable(c, n), ideal |-> Filled(PlanIdealCols, 0, IdealMenu, 0)] :
        c \in [1..3 -> {ConcatMenu[k] : k \in 1..Len(ConcatMenu)}], n \in 1..MaxRows}

Separators == {SepAbsent, SepStr(<<>>), SepStr(<<"-">>), SepStr(<<"-", " ">>)}

ConcatPlans ==
    {Plan(TRUE, <<ConcatOp(srcs, sep, AUTHOR)>>) :
        srcs \in UNION {[1..k -> {FIRST, LAST, PRICE}] : k \in 1..MaxSources},
        sep \in Separators}
    \cup {Plan(FALSE, <<>>)}

InitConcat == InitExec(ConcatPlans, ConcatTables)

SpecConcat == InitConcat /\ [][NextPlan]_vars

----------------------------------------------------------------------------
(* The improvement judge on its own: a table before and a table after *)

\* the column with k cells holding v, then nulls up to n rows
CountColumn(k, v, n) == [i \in 1..n |-> IF i <= k THEN Str(<<v>>) ELSE Null]

JudgeTables ==
    {Table(<<"A", "B">>, MaxCount,
           [c \in {"A", "B"} |->
               IF c = "A" THEN CountColumn(k[1], v[1], MaxCount)
               ELSE CountColumn(k[2], v[2], MaxCount)]) :
        k \in (0..MaxCount) \X (0..MaxCount), v \in {"t", "u"} \X {"t", "u"}}

InitJudge ==
    /\ judge \in {[before |-> b, after |-> a, changed |-> FALSE, set |-> FALSE] :
                    b \in JudgeTables, a \in JudgeTables}
    /\ pc = "idle"
    /\ given = [plan |-> Plan(TRUE, <<>>), raw |-> NoTable, ideal |-> NoTable]
    /\ raw_df = NoTable
    /\ ideal_df = NoTable
    /\ todo = <<>>
    /\ steps = <<>>
    /\ jobdir = NoJob
    /\ last = NoCall
    /\ stub = Free

\* lines 333-335
Judge ==
    /\ ~judge.set
    /\ judge' = [judge EXCEPT !.changed = improved(judge.before, judge.after),
                              !.set = TRUE]
    /\ UNCHANGED <<pc, raw_df, ideal_df, todo, steps, given, jobdir, last, stub>>

SpecJudge == InitJudge /\ [][Judge]_vars

\* the non-null cells of a column, counted as a set of rows
NonNull(df, c) == Cardinality({i \in 1..df.nrows : df.data[c][i].t # "null"})

\* C3. The judge's verdict is true exactly when some column of the ideal table has
\* strictly more non-null cells after than before: a decrease in another column
\* does not matter, and equal counts in every column give false even when the
\* cells were overwritten.
C3_JudgeIffSomeColumnGrew ==
    judge.set =>
        (judge.changed <=>
            \E c \in ColSet(judge.before) : NonNull(judge.after, c) > NonNull(judge.before, c))

\* the example of the claim: before {A:0, B:5}, after {A:3, B:4} is 'improved'
C3_Witness ==
    /\ judge.set
    /\ judge.changed
    /\ NonNull(judge.before, "A") = 0 /\ NonNull(judge.before, "B") = 5
    /\ NonNull(judge.after, "A") = 3 /\ NonNull(judge.after, "B") = 4

----------------------------------------------------------------------------
(* The external model's response, and the plan text taken from it *)

\* A response is a sequence of tokens: three backticks followed by json (an
\* opening fence), three backticks alone (a fence), the braces, whitespace " ",
\* other prose "x", and between braces the body of a JSON object: "bad" (text no
\* JSON parser accepts) or the token of a plan.
FenceOpen == "<fence>json"
Fence == "<fence>"

\* the first position from i on that holds no whitespace (Len + 1 if none)
RECURSIVE SkipSpace(_, _)
SkipSpace(text, i) ==
    IF i <= Len(text) /\ IsSpace(text[i]) THEN SkipSpace(text, i + 1) ELSE i

\* the pattern's tail at position k: a closing brace, then whitespace, then three backticks
\* (those of an opening fence included)
ClosesFence(text, k) ==
    /\ text[k] = "}"
    /\ LET e == SkipSpace(text, k + 1)
       IN  e <= Len(text) /\ text[e] \in {Fence, FenceOpen}

\* the pattern of line 52 matched with its opening fence at position i
FencedAt(text, i) ==
    /\ text[i] = FenceOpen
    /\ LET j == SkipSpace(text, i + 1)
       IN  /\ j <= Len(text)
           /\ text[j] = "{"
           /\ \E k \in (j + 1)..Len(text) : ClosesFence(text, k)

Least(S) == CHOOSE x \in S : \A y \in S : x <= y
Greatest(S) == CHOOSE x \in S : \A y \in S : y <= x

\* extract_json_block(text)
extract_json_block(text) ==
    LET fenced == {i \in 1..Len(text) : FencedAt(text, i)}
        opens == {i \in 1..Len(text) : text[i] = "{"}
        closes == {i \in 1..Len(text) : text[i] = "}"}
    IN  IF fenced # {}
        THEN LET j == SkipSpace(text, Least(fenced) + 1)
                 k == Least({e \in (j + 1)..Len(text) : ClosesFence(text, e)})
             IN  strip(SubSeq(text, j, k))
        ELSE IF opens # {} /\ \E b \in closes : b > Least(opens)
        THEN strip(SubSeq(text, Least(opens), Greatest(closes)))
        ELSE <<>>

\* the plans a body token can stand for
ObjPlans ==
    [n \in 1..MaxRows |->
        Plan(TRUE, <<FillConstOp(List([i \in 1..n |-> Obj]), "Notes")>>)]

MainPlans ==
    << Plan(TRUE, <<CopyOp(FIRST, AUTHOR)>>),
       Plan(TRUE, <<CopyOp(FIRST, "Notes")>>),
       Plan(TRUE, <<FillConstOp(Scalar(Null), "Notes"), NumericCopyOp(PRICE, APC, DecAbsent)>>),
       Plan(TRUE, <<CopyOp(Missing, AUTHOR), NotADict>>),
       Plan(FALSE, <<>>),
       Plan(TRUE, <<CopyOp("Name", "Notes")>>),
       Plan(TRUE, <<FillConstOp(Scalar(Str(<<"ACS">>)), "Agreement")>>),
       Plan(TRUE, <<ConcatOp(<<FIRST, LAST>>, SepAbsent, AUTHOR)>>) >> \o ObjPlans

PlanToken(k) == "P" \o ToString(k)
PlanTokens == {PlanToken(k) : k \in 1..Len(MainPlans)}
PlanOf(tok) == MainPlans[CHOOSE k \in 1..Len(MainPlans) : PlanToken(k) = tok]

\* json.loads(plan_json): the plan, or ok = FALSE for a JSONDecodeError. The text
\* starts and ends with a brace, so what parses is a JSON object; an object
\* without "mappings" is the empty plan.
json_loads(block) ==
    LET core == SelectSeq(block, LAMBDA tok : ~IsSpace(tok))
    IN  IF core = <<"{", "}">> THEN [ok |-> TRUE, plan |-> Plan(TRUE, <<>>)]
        ELSE IF Len(core) = 3 /\ core[1] = "{" /\ core[3] = "}" /\ core[2] \in PlanTokens
        THEN [ok |-> TRUE, plan |-> PlanOf(core[2])]
        ELSE [ok |-> FALSE, plan |-> Plan(TRUE, <<>>)]

Bodies == PlanTokens \cup {"bad"}
FewBodies == {PlanToken(1), "bad"}

Responses ==
    {<<>>, <<"x">>, <<"{">>, <<"}", "x", "{">>, <<"{", "}">>,
     <<FenceOpen, " ", "{", " ", "}", " ", Fence>>}
    \cup {<<"{", b, "}">> : b \in Bodies}
    \cup {<<"x", FenceOpen, " ", "{", b, "}", " ", Fence, "x">> : b \in FewBodies}
    \cup {<<"x", "{", b, "}", "x">> : b \in FewBodies}
    \cup {<<"{", b, "}", "x", "{", "}">> : b \in FewBodies}
    \cup {<<FenceOpen, "{", b, "}", "x", Fence>> : b \in FewBodies}
    \cup {<<"{", "bad", "}", FenceOpen, "{", b, "}", Fence>> : b \in FewBodies}

\* call_ollama: the text the process printed, or ok = FALSE when it raises
\* (non-zero exit, no such program)
Failure == [ok |-> FALSE, out |-> <<>>]
Answer(text) == [ok |-> TRUE, out |-> text]
Outcomes == {Failure} \cup {Answer(r) : r \in Responses}

----------------------------------------------------------------------------
(* The instructions file *)

\* A file: what kind of bytes it holds and the text in them (for a PDF or a
\* workbook, the text PyMuPDF or read_excel extracts)
File(fmt, text) == [fmt |-> fmt, text |-> text]

InstructionNames ==
    {"instructions.pdf", "instructions.xlsx", "instructions.txt", "instructions_upload",
     "rules.pdf"}

\* job_dir.glob("instructions*")
GlobMatches(name) == name # "rules.pdf"

\* instr.suffix.lower()
Suffix(name) ==
    CASE name \in {"instructions.pdf", "rules.pdf"} -> ".pdf"
      [] name = "instructions.xlsx" -> ".xlsx"
      [] name = "instructions.txt" -> ".txt"
      [] OTHER -> ""

\* reading in text mode: "\r\n" and "\r" become "\n"
RECURSIVE UniversalNewlines(_)
UniversalNewlines(s) ==
    IF s = <<>> THEN s
    ELSE IF Head(s) = "\r"
    THEN IF Len(s) > 1 /\ s[2] = "\n"
         THEN <<"\n">> \o UniversalNewlines(SubSeq(s, 3, Len(s)))
         ELSE <<"\n">> \o UniversalNewlines(Tail(s))
    ELSE <<Head(s)>> \o UniversalNewlines(Tail(s))

ReadError == <<"[INSTRUCTIONS_READ_ERROR]">>

\* lines 24-36 on the file glob gave
ReadInstructions(name, file) ==
    CASE Suffix(name) = ".pdf" -> IF file.fmt = "pdf" THEN file.text ELSE ReadError
      [] Suffix(name) = ".xlsx" -> IF file.fmt = "xlsx" THEN file.text ELSE ReadError
      [] OTHER -> IF file.fmt = "text" THEN UniversalNewlines(file.text) ELSE <<"?">>

\* the files next(job_dir.glob("instructions*"), None) can give: the directory is
\* listed in no particular order
GlobFirst(instr) ==
    IF \E n \in DOMAIN instr : GlobMatches(n)
    THEN {n \in DOMAIN instr : GlobMatches(n)}
    ELSE {NoneRef}

\* read_instructions_text(job_dir), glob having given the file named pick
read_instructions_text(instr, pick) ==
    IF pick = NoneRef THEN <<>> ELSE ReadInstructions(pick, instr[pick])

\* Path.write_text
write_text(instr, name, text) ==
    [n \in DOMAIN instr \cup {name} |-> IF n = name THEN File("text", text) ELSE instr[n]]

----------------------------------------------------------------------------
(* The job directory and the two handlers *)

Absent == [written |-> FALSE, v |-> <<>>]
Written(v) == [written |-> TRUE, v |-> v]

Upload(raw, ideal, name, file) ==
    [exists |-> TRUE, raw |-> raw, ideal |-> ideal,
     instr |-> [n \in {name} |-> file],
     plan_raw |-> Absent, plan_json |-> Absent, ideal_filled |-> Absent,
     transform_log |-> Absent, summary |-> Absent]

\* line 338's second argument
FallbackInput_NewIdeal(ideal, new_ideal) == new_ideal

FallbackInput(ideal, new_ideal) == ideal

\* DataFrame.to_excel: a cell holding a dict or a list makes the writer raise
Writable(df) == \A c \in ColSet(df) : \A i \in 1..df.nrows : df.data[c][i].t # "obj"

FallbackLine == Entry("FALLBACK: Applied deterministic ACS rules", <<>>, "")
NoPlanLine == Entry("No JSON plan extracted", <<>>, "")
ParseErrorLine == Entry("[PLAN_PARSE_ERROR]", <<>>, "")
CallErrorLine == Entry("[AI_CALL_ERROR]", <<>>, "")

\* lines 294-302: the instructions text is read, the two tables are loaded and an
\* ideal table without rows is given the rows of the raw table
LoadInputs(dir, pick) ==
    [instr_text |-> read_instructions_text(dir.instr, pick),
     raw |-> dir.raw,
     ideal |-> ensure_row_count(dir.raw, dir.ideal)]

\* lines 305-312: the plan text taken from the response, or the log line of a
\* call that raised
AskPlan(outcome) ==
    [plan_json |-> IF outcome.ok THEN extract_json_block(outcome.out) ELSE <<>>,
     ai_steps |-> IF outcome.ok THEN <<>> ELSE <<CallErrorLine>>]

\* lines 319-328, json.loads and apply_plan having given parsed and run
PlanResult(inp, ask, parsed, run) ==
    [got |-> ask.plan_json # <<>> /\ parsed.ok,
     ran |-> ask.plan_json # <<>> /\ parsed.ok /\ ~run.raised,
     new_ideal |-> IF ask.plan_json # <<>> /\ parsed.ok THEN run.df ELSE inp.ideal,
     ai_steps |-> CASE ask.plan_json = <<>> -> Append(ask.ai_steps, NoPlanLine)
                    [] ~parsed.ok \/ run.raised -> Append(ask.ai_steps, ParseErrorLine)
                    [] OTHER -> ask.ai_steps \o run.steps]

ApplyParsed(inp, ask, parsed) ==
    PlanResult(inp, ask, parsed, apply_plan(parsed.plan, inp.raw, inp.ideal))

ParseAndApply(inp, ask) == ApplyParsed(inp, ask, json_loads(ask.plan_json))

\* lines 337-341, the judge having given verdict and the rules fb
Chosen(res, verdict, fb) ==
    [changed |-> verdict,
     final |-> IF verdict THEN res.new_ideal ELSE fb.df,
     ai_steps |-> IF verdict THEN res.ai_steps
                  ELSE Append(res.ai_steps, FallbackLine) \o fb.steps]

\* lines 331-341
JudgeAndFallBack(inp, res) ==
    Chosen(res, improved(inp.ideal, res.new_ideal),
           apply_fallback_acs(inp.raw, FallbackInput(inp.ideal, res.new_ideal)))

\* the files written before the workbook: lines 296, 315, 316
EarlyWrites(dir, outcome, inp, ask) ==
    [dir EXCEPT
        !.instr = write_text(dir.instr, "instructions.txt", inp.instr_text),
        !.plan_raw = Written(outcome.out),
        !.plan_json = Written(IF ask.plan_json # <<>> THEN ask.plan_json ELSE <<"{", "}">>)]

\* lines 344-358: the three outputs and the answer; to_excel raising leaves the
\* log and the summary unwritten and the call answered with a server error
Outputs(early, outcome, inp, ask, res, out) ==
    [dir |-> IF Writable(out.final)
             THEN [early EXCEPT
                      !.ideal_filled = Written(out.final),
                      !.transform_log = Written(out.ai_steps),
                      !.summary = Written([rows_in_raw |-> inp.raw.nrows,
                                           rows_in_ideal |-> out.final.nrows,
                                           plan_chars |-> Len(ask.plan_json)])]
             ELSE early,
     call |-> [made |-> TRUE, status |-> IF Writable(out.final) THEN 200 ELSE 500,
               instr_text |-> inp.instr_text, raw |-> inp.raw, ideal |-> inp.ideal,
               outcome |-> outcome, plan_json |-> ask.plan_json, parsed |-> res.got, ran |-> res.ran,
               new_ideal |-> res.new_ideal, changed |-> out.changed,
               final |-> out.final, ai_steps |-> out.ai_steps]]

Decided(dir, outcome, inp, ask, res) ==
    Outputs(EarlyWrites(dir, outcome, inp, ask), outcome, inp, ask, res,
            JudgeAndFallBack(inp, res))

Loaded(dir, outcome, inp, ask) == Decided(dir, outcome, inp, ask, ParseAndApply(inp, ask))

\* finalize, lines 294-358, on an existing job with both input files: the job
\* directory it leaves and what the call read, decided and answered
finalize(dir, outcome, pick) == Loaded(dir, outcome, LoadInputs(dir, pick), AskPlan(outcome))

\* a workbook whose writing was interrupted
Torn == Written(NoTable)

ExecutorIdle ==
    /\ pc = "idle"
    /\ given = [plan |-> Plan(TRUE, <<>>), raw |-> NoTable, ideal |-> NoTable]
    /\ raw_df = NoTable
    /\ ideal_df = NoTable
    /\ todo = <<>>
    /\ steps = <<>>

\* POST /process: the three uploads saved under a new job id
Process(uploads) ==
    /\ jobdir = NoJob
    /\ jobdir' \in uploads
    /\ UNCHANGED <<pc, raw_df, ideal_df, todo, steps, given, judge, last, stub>>

\* POST /finalize/{job_id} before the job exists: 404
FinalizeNotFound ==
    /\ jobdir = NoJob
    /\ ~last.made
    /\ last' = [NoCall EXCEPT !.made = TRUE, !.status = 404]
    /\ UNCHANGED <<pc, raw_df, ideal_df, todo, steps, given, judge, jobdir, stub>>

\* the state a finalize call leaves; the writer that raised may or may not have
\* left a file behind
Answered(r) ==
    /\ jobdir' \in (IF r.call.status = 500
                    THEN {r.dir, [r.dir EXCEPT !.ideal_filled = Torn]}
                    ELSE {r.dir})
    /\ last' = r.call
    /\ judge' = [before |-> r.call.ideal, after |-> r.call.new_ideal,
                 changed |-> r.call.changed, set |-> TRUE]

\* POST /finalize/{job_id} on the job
Finalize ==
    /\ jobdir # NoJob
    /\ \E outcome \in (IF stub.fixed THEN {stub.outcome} ELSE Outcomes),
          pick \in GlobFirst(jobdir.instr) :
          Answered(finalize(jobdir, outcome, pick))
    /\ UNCHANGED <<pc, raw_df, ideal_df, todo, steps, given, stub>>

\* the uploads of the model
MainRawTables ==
    {Filled(cols, n, RawMenu, p) :
        cols \in {<<FIRST, LAST, PRICE>>, <<"Name">>}, n \in 0..MaxRows, p \in {0}}

MainIdealTables ==
    {Filled(cols, n, menu, 0) :
        cols \in {<<AUTHOR, APC, "Notes">>, <<"Agreement", "Notes">>}, n \in 0..MaxRows,
        menu \in {<<Null>>, <<Null, Str(<<"t">>)>>}}

MainUploads ==
    {Upload(r, d, "instructions.txt", File("text", <<"a">>)) :
        r \in MainRawTables, d \in MainIdealTables}

Init ==
    /\ ExecutorIdle
    /\ judge = NoJudge
    /\ jobdir = NoJob
    /\ last = NoCall
    /\ stub = Free

Next == Process(MainUploads) \/ FinalizeNotFound \/ Finalize

Spec == Init /\ [][Next]_vars

----------------------------------------------------------------------------
(* Repeated finalize calls against a stubbed model *)

StubTexts == {<<"a">>, <<"a", "\r", "b">>, <<"a", "\r", "\n", "b">>, <<"a", "\n", "b">>}

StubFiles == {File(fmt, text) : fmt \in {"pdf", "xlsx", "text"}, text \in StubTexts}

StubUploads ==
    {Upload(Filled(<<FIRST, LAST, PRICE>>, MaxRows, RawMenu, 0),
            Filled(<<AUTHOR, APC, "Notes">>, n, IdealMenu, 0), name, file) :
        n \in {0, MaxRows}, name \in InstructionNames, file \in StubFiles}

\* the fixed response of the stub: a failing call, an empty response, or a plan
StubOutcomes ==
    {Failure, Answer(<<>>), Answer(<<"{", PlanToken(1), "}">>),
     Answer(<<FenceOpen, "{", PlanToken(2), "}", Fence>>)}

InitStub ==
    /\ ExecutorIdle
    /\ judge = NoJudge
    /\ jobdir = NoJob
    /\ last = NoCall
    /\ stub \in {[fixed |-> TRUE, outcome |-> o] : o \in StubOutcomes}

NextStub == Process(StubUploads) \/ Finalize

SpecStub == InitStub /\ [][NextStub]_vars

----------------------------------------------------------------------------
(* Properties of the plan executor *)

DoneTag(op) ==
    CASE op = "copy" -> "Mapped"
      [] op = "concat" -> "Concatenated"
      [] op = "date_copy" -> "Date copy"
      [] op = "calendar_year" -> "Calendar Year from"
      [] op = "fiscal_year_july_june" -> "Fiscal Year (July-June) from"
      [] op = "numeric_copy" -> "Numeric copy"
      [] OTHER -> "Filled constant"

SkipTag(op) ==
    CASE op = "copy" -> "Skipped copy"
      [] op = "concat" -> "Skipped concat"
      [] op = "date_copy" -> "Skipped date_copy"
      [] op = "calendar_year" -> "Skipped calendar_year"
      [] op = "fiscal_year_july_june" -> "Skipped fiscal_year"
      [] op = "numeric_copy" -> "Skipped numeric_copy"
      [] OTHER -> "Skipped fill_const"

ErrorTag == "[PLAN_APPLY_ERROR]"

\* the table apply_plan works on once the row count is ensured
Entered == ensure_row_count(given.raw, given.ideal)

\* C4. In every state of a run of apply_plan, and so in the table it returns, the
\* ideal table has the columns of the ideal table it was given, in the same order,
\* whatever the operations did.
C4_SameColumns ==
    /\ ideal_df.columns = given.ideal.columns
    /\ DOMAIN ideal_df.data = ColSet(given.ideal)

\* a run that applied one operation, had another fail, and returned
C4_Witness ==
    /\ pc = "done"
    /\ ideal_df # Entered
    /\ \E i, j \in 1..Len(steps) : steps[i].tag = "Mapped" /\ steps[j].tag = ErrorTag

\* the column references of a known operation, as far as its branch reads them
SourceRefs(m) ==
    CASE m.op = "concat" -> m.sources
      [] m.op = "fill_const" -> <<>>
      [] OTHER -> <<m.source>>

\* every reference is a string or absent, and "sources" is a list
PlainRefs(m) ==
    /\ m.sources_ok
    /\ m.target # Unhashable
    /\ \A k \in 1..Len(SourceRefs(m)) : SourceRefs(m)[k] # Unhashable

\* a known operation naming a source column the raw table lacks or a target column
\* the ideal table lacks
NamesMissingColumn(m) ==
    /\ m.isdict
    /\ m.op \in KnownOps
    /\ PlainRefs(m)
    /\ \/ \E k \in 1..Len(SourceRefs(m)) : SourceRefs(m)[k] \notin ColSet(raw_df)
       \/ m.target \notin ColSet(ideal_df)

BadDecimals(m) == m.op = "numeric_copy" /\ m.decimals.kind = "bad"

\* C5 as stated: an operation of a known kind that names a missing column appends
\* a 'Skipped ...' line and leaves the whole ideal table as it was.
C5_MissingColumnSkipped ==
    [][(pc = "loop" /\ todo # <<>> /\ NamesMissingColumn(Head(todo)))
        => /\ ideal_df' = ideal_df
           /\ steps' = Append(steps, steps'[Len(steps')])
           /\ steps'[Len(steps')].tag = SkipTag(Head(todo).op)]_vars

\* C5, amended. An operation of a known kind that names a missing column leaves
\* the whole ideal table as it was and appends exactly one line: a 'Skipped ...'
\* line naming its target, except that a numeric_copy whose decimals cannot be
\* converted to an integer appends a '[PLAN_APPLY_ERROR]' line instead.
C5_MissingColumnNoEffect ==
    [][(pc = "loop" /\ todo # <<>> /\ NamesMissingColumn(Head(todo)))
        => /\ ideal_df' = ideal_df
           /\ steps' = Append(steps, steps'[Len(steps')])
           /\ IF BadDecimals(Head(todo))
              THEN steps'[Len(steps')].tag = ErrorTag
              ELSE /\ steps'[Len(steps')].tag = SkipTag(Head(todo).op)
                   /\ steps'[Len(steps')].tgt = Head(todo).target]_vars

\* a returned run whose first operation was skipped for a missing column and whose
\* second was a numeric_copy with a missing source and unusable decimals
C5_Witness ==
    /\ pc = "done"
    /\ Len(steps) = 2
    /\ ideal_df = Entered
    /\ steps[1].tag \in {SkipTag(k) : k \in KnownOps}
    /\ steps[2].tag = ErrorTag
    /\ BadDecimals(given.plan.mappings[2])
    /\ given.plan.mappings[2].source \notin ColSet(raw_df)

\* the line e is the report of operation m
Reports(e, m) ==
    \/ e.tag = ErrorTag
    \/ /\ m.isdict
       /\ m.op \in KnownOps
       /\ e.tag \in {DoneTag(m.op), SkipTag(m.op)}
       /\ e.tgt = m.target
    \/ /\ m.isdict
       /\ m.op \notin KnownOps
       /\ e = Entry("Unknown op", <<m.op>>, "")

\* C6. For a plan whose mappings are a list of n operations, no operation makes
\* apply_plan raise, the loop visits all n, and the log has one line per visited
\* operation, the i-th reporting the i-th operation; on return it has n lines.
C6_OneLinePerOperation ==
    given.plan.mappings_ok =>
        /\ pc # "raised"
        /\ pc \in {"loop", "done"} =>
              /\ Len(steps) + Len(todo) = Len(given.plan.mappings)
              /\ \A i \in 1..Len(steps) : Reports(steps[i], given.plan.mappings[i])
        /\ pc = "done" => Len(steps) = Len(given.plan.mappings)

\* a returned run whose first operation raised and whose next one was applied
C6_Witness ==
    /\ pc = "done"
    /\ Len(steps) = MaxOps
    /\ steps[1].tag = ErrorTag
    /\ steps[Len(steps)].tag = "Mapped"

\* C9's reference value for one row: the source values in order, null as the empty
\* string, each trimmed; joined with the separator; the joined string trimmed once;
\* null when nothing is left
RECURSIVE Join(_, _)
Join(vals, sep) ==
    IF Len(vals) = 1 THEN vals[1]
    ELSE Join(SubSeq(vals, 1, Len(vals) - 1), sep) \o sep \o vals[Len(vals)]

Trimmed(c) == IF c.t = "null" THEN <<>> ELSE strip(astype_str(c))

Reference(srcs, sep, i) ==
    LET vals == [k \in 1..Len(srcs) |-> Trimmed(given.raw.data[srcs[k]][i])]
        joined == strip(Join(vals, sep))
    IN  IF joined = <<>> THEN Null ELSE Str(joined)

\* the concat operation of the run, once it has been applied
ConcatApplied ==
    /\ pc = "done"
    /\ Len(given.plan.mappings) = 1
    /\ given.plan.mappings[1].op = "concat"
    /\ steps = <<Entry("Concatenated", given.plan.mappings[1].sources, given.plan.mappings[1].target)>>

TargetIsReference ==
    LET m == given.plan.mappings[1]
    IN  \A i \in 1..ideal_df.nrows :
            ideal_df.data[m.target][i] = Reference(m.sources, SepChars(m.sep), i)

\* C9 as stated: after a concat whose columns all exist, every row of the target
\* is the reference value, for any number of source columns and any separator.
C9_ConcatIsReference == ConcatApplied => TargetIsReference

NoEdgeSpace(s) == s = <<>> \/ (~IsSpace(s[1]) /\ ~IsSpace(s[Len(s)]))

\* C9, amended. After a concat whose columns all exist, every row of the target is
\* the reference value when the operation has at most two source columns or its
\* separator neither starts nor ends with whitespace. (With three or more sources
\* the code trims after each join, so around an empty value a separator with
\* whitespace at its edge is cut short.)
C9_ConcatIsReferenceUpToTwo ==
    (/\ ConcatApplied
     /\ \/ Len(given.plan.mappings[1].sources) <= 2
        \/ NoEdgeSpace(SepChars(given.plan.mappings[1].sep)))
    => TargetIsReference

\* the example of the claim: 'a' and null joined with " " give 'a'
C9_Witness ==
    /\ ConcatApplied
    /\ given.plan.mappings[1].sources = <<FIRST, LAST>>
    /\ given.plan.mappings[1].sep = SepAbsent
    /\ given.raw.data[FIRST][1] = Str(<<"a">>)
    /\ given.raw.data[LAST][1] = Null
    /\ ideal_df.data[AUTHOR][1] = Str(<<"a">>)

----------------------------------------------------------------------------
(* Properties of the service *)

\* the last call was a finalize on an existing job with both input files
Finalized == last.made /\ last.status # 404

FallbackApplied == \E i \in 1..Len(last.ai_steps) : last.ai_steps[i] = FallbackLine

SomeColumnGrew ==
    \E c \in ColSet(last.new_ideal) :
        NonNull(last.new_ideal, c) > (IF c \in ColSet(last.ideal) THEN NonNull(last.ideal, c) ELSE 0)

\* C2. After a finalize call the fallback rules were applied if and only if the
\* judge answered 'not improved'; they were applied whenever no plan text was
\* extracted and whenever the extracted text did not parse, and never when the
\* non-null count of some column grew from the table before the plan to the table
\* after it.
C2_FallbackIffNotImproved ==
    Finalized =>
        /\ FallbackApplied <=> ~last.changed
        /\ last.plan_json = <<>> => FallbackApplied
        /\ (last.plan_json # <<>> /\ ~last.parsed) => FallbackApplied
        /\ SomeColumnGrew => ~FallbackApplied

\* a response whose block was extracted and did not parse, answered by the fallback
C2_Witness ==
    /\ Finalized
    /\ last.outcome.ok
    /\ last.plan_json # <<>>
    /\ ~last.parsed
    /\ FallbackApplied
    /\ jobdir.ideal_filled = Written(last.final)

\* C7 as stated: when the response is empty or holds no plan that parses, the
\* written step log has the 'No JSON plan extracted' entry and later the fallback
\* entry, and the written workbook has as many rows as the raw table.
C7_NoPlanThenFallbackSameRows ==
    (Finalized /\ last.outcome.ok /\ ~last.parsed) =>
        /\ jobdir.transform_log.written
        /\ \E i, j \in 1..Len(jobdir.transform_log.v) :
              /\ i < j
              /\ jobdir.transform_log.v[i] = NoPlanLine
              /\ jobdir.transform_log.v[j] = FallbackLine
        /\ jobdir.ideal_filled.written
        /\ jobdir.ideal_filled.v.nrows = jobdir.raw.nrows

\* the ideal table finalize works on
LoadedIdeal == ensure_row_count(jobdir.raw, jobdir.ideal)

\* C10. Whenever finalize applied the fallback, the workbook it wrote is the
\* result of the fallback rules on the raw table and the ideal table as loaded, so
\* it does not depend on the plan; and when a plan was parsed and run to its end, the step log
\* is the plan's lines, then the fallback entry, then the lines of the rules.
C10_FallbackOutputIgnoresPlan ==
    (Finalized /\ FallbackApplied) =>
        /\ last.status = 200
        /\ jobdir.ideal_filled = Written(apply_fallback_acs(jobdir.raw, LoadedIdeal).df)
        /\ last.ran =>
              jobdir.transform_log.v =
                  Append(apply_plan(json_loads(last.plan_json).plan, jobdir.raw, LoadedIdeal).steps,
                         FallbackLine)
                  \o apply_fallback_acs(jobdir.raw, LoadedIdeal).steps

\* a plan that wrote cells of the ideal table, was judged 'not improved' and is
\* listed in the log, while the workbook holds none of what it wrote
C10_Witness ==
    /\ Finalized
    /\ FallbackApplied
    /\ last.ran
    /\ last.new_ideal # last.ideal
    /\ last.ai_steps[1].tag = "Filled constant"
    /\ jobdir.ideal_filled.written
    /\ jobdir.ideal_filled.v.data["Notes"] = LoadedIdeal.data["Notes"]
    /\ last.new_ideal.data["Notes"] # LoadedIdeal.data["Notes"]

\* C8 as stated: with the model stubbed to one response, a finalize call that
\* follows another on the same job reads the same instruction text and the same
\* tables, and leaves the same step log and the same workbook.
C8_FinalizeIdempotent ==
    [][last.made =>
          /\ last'.instr_text = last.instr_text
          /\ last'.raw = last.raw
          /\ last'.ideal = last.ideal
          /\ jobdir'.transform_log = jobdir.transform_log
          /\ jobdir'.ideal_filled = jobdir.ideal_filled]_vars

====
